---- MODULE Spec2Model ----
(***************************************************************************)
(* A model of QwenImageEditS3Client (src/qwen_image_edit_s3_client.py):    *)
(* upload_to_s3, submit_job, wait_for_completion, save_image_result,       *)
(* edit_single_image, edit_dual_image and batch_edit_images.               *)
(*                                                                         *)
(* One behaviour is one call of one public method (op), with its inputs    *)
(* drawn in Init and the answers of the object store, of the job queue and *)
(* of the file system drawn step by step.  The model clock advances by     *)
(* check_interval on each time.sleep and not otherwise.                    *)
(*                                                                         *)
(* Python values: an optional value (a dictionary key that may be absent,  *)
(* or a value that may be None) is a sequence of length 0 or 1; a string   *)
(* that the code takes apart (the base64 payload) is a sequence of         *)
(* one-character strings; a file name is a record of its stem and its      *)
(* final suffix.                                                           *)
(***************************************************************************)
EXTENDS Integers, Sequences, FiniteSets, TLC

(***************************************************************************)
(* Bounds of the model.                                                    *)
(***************************************************************************)
MaxFiles == 3      \* directory entries of a batch
MaxInterval == 2   \* check_interval of a direct wait_for_completion call
MaxWait == 3       \* max_wait_time of a direct wait_for_completion call
MaxBytes == 2      \* length of the image bytes B
MaxPrefix == 2    \* length of the text before the base64 payload

(***************************************************************************)
(* Program constants.                                                      *)
(***************************************************************************)
DefaultCheckInterval == 10
DefaultMaxWaitTime == 1800
LightningSteps == 4
DefaultSeed == 12345

None == << >>
Some(v) == << v >>

(***************************************************************************)
(* File names.  os.listdir gives names; str.lower, str.endswith and        *)
(* Path.stem are modelled on the record [stem, suffix].                    *)
(***************************************************************************)
FileNames ==
    { [stem |-> "a", suffix |-> ".jpg"],
      [stem |-> "a", suffix |-> ".PNG"],
      [stem |-> "b", suffix |-> ".gif"],
      [stem |-> "n", suffix |-> ".txt"] }

valid_image_extensions == { ".jpg", ".jpeg", ".png", ".bmp" }

Lower(s) ==
    CASE s = ".PNG" -> ".png"
      [] s = ".JPG" -> ".jpg"
      [] OTHER -> s

\* f.lower().endswith(valid_image_extensions)
IsImageFile(f) == Lower(f.suffix) \in valid_image_extensions

\* [f for f in os.listdir(folder) if f.lower().endswith(valid_image_extensions)]
RECURSIVE FilterImages(_)
FilterImages(listing) ==
    IF listing = << >> THEN << >>
    ELSE IF IsImageFile(Head(listing))
         THEN << Head(listing) >> \o FilterImages(Tail(listing))
         ELSE FilterImages(Tail(listing))

\* os.path.join(output_folder_path, f"edited_{Path(image_filename).stem}.png")
OutputFilename(folder, f) ==
    [folder |-> folder, prefix |-> "edited_", stem |-> f.stem, suffix |-> ".png"]

\* Mutant: every file gets the base seed.
FileSeedNoOffset(sd, k) == sd

\* seed=seed + i
FileSeed(sd, k) == sd + k

\* Mutant: fast mode leaves the caller's step count alone.
EffectiveStepsNoOverride(st, lightning) == st

\* if use_lightning: steps = 4
EffectiveSteps(st, lightning) ==
    IF lightning THEN LightningSteps ELSE st

(***************************************************************************)
(* base64.  Alphabet[v + 1] is the character of the sextet v.              *)
(***************************************************************************)
Alphabet ==
    << "A","B","C","D","E","F","G","H","I","J","K","L","M","N","O","P",
       "Q","R","S","T","U","V","W","X","Y","Z","a","b","c","d","e","f",
       "g","h","i","j","k","l","m","n","o","p","q","r","s","t","u","v",
       "w","x","y","z","0","1","2","3","4","5","6","7","8","9","+","/" >>

IsAlpha(ch) == \E k \in 1..Len(Alphabet) : Alphabet[k] = ch
Sextet(ch) == (CHOOSE k \in 1..Len(Alphabet) : Alphabet[k] = ch) - 1
Chr(v) == Alphabet[v + 1]

\* The standard encoding of a byte sequence (what the service sends).
RECURSIVE B64Encode(_)
B64Encode(bs) ==
    IF Len(bs) = 0 THEN << >>
    ELSE IF Len(bs) = 1 THEN
        << Chr(bs[1] \div 4), Chr((bs[1] % 4) * 16), "=", "=" >>
    ELSE IF Len(bs) = 2 THEN
        << Chr(bs[1] \div 4), Chr((bs[1] % 4) * 16 + bs[2] \div 16),
           Chr((bs[2] % 16) * 4), "=" >>
    ELSE
        << Chr(bs[1] \div 4), Chr((bs[1] % 4) * 16 + bs[2] \div 16),
           Chr((bs[2] % 16) * 4 + bs[3] \div 64), Chr(bs[3] % 64) >>
        \o B64Encode(SubSeq(bs, 4, Len(bs)))

\* base64.b64decode(s) with validate=False: characters outside the alphabet
\* are skipped, a pad sequence that completes a quad ends the parse, and a
\* quad left open at the end is an error (binascii.Error).
RECURSIVE B64Scan(_, _, _, _, _, _)
B64Scan(s, i, quad, left, pads, out) ==
    IF i > Len(s) THEN [ok |-> quad = 0, data |-> out]
    ELSE IF s[i] = "=" THEN
        IF quad >= 2 /\ quad + pads + 1 >= 4
        THEN [ok |-> TRUE, data |-> out]
        ELSE B64Scan(s, i + 1, quad, left,
                     IF quad >= 2 THEN pads + 1 ELSE pads, out)
    ELSE IF ~IsAlpha(s[i]) THEN B64Scan(s, i + 1, quad, left, pads, out)
    ELSE
        LET v == Sextet(s[i]) IN
        CASE quad = 0 -> B64Scan(s, i + 1, 1, v, 0, out)
          [] quad = 1 ->
               B64Scan(s, i + 1, 2, v % 16, 0, Append(out, left * 4 + v \div 16))
          [] quad = 2 ->
               B64Scan(s, i + 1, 3, v % 4, 0, Append(out, left * 16 + v \div 4))
          [] OTHER ->
               B64Scan(s, i + 1, 0, 0, 0, Append(out, left * 64 + v))

B64Decode(s) == B64Scan(s, 1, 0, 0, 0, << >>)

\* ',' in image_b64
HasComma(s) == \E k \in 1..Len(s) : s[k] = ","

\* image_b64.split(',', 1)[1]: the text after the first comma
AfterFirstComma(s) ==
    LET k == CHOOSE j \in 1..Len(s) :
                 s[j] = "," /\ \A m \in 1..(j - 1) : s[m] # ","
    IN SubSeq(s, k + 1, Len(s))

\* Mutant: the payload is decoded as it came.
StripNothing(s) == s

\* if ',' in image_b64: image_b64 = image_b64.split(',', 1)[1]
StripDataUri(s) == IF HasComma(s) THEN AfterFirstComma(s) ELSE s


(***************************************************************************)
(* Result dictionaries.  Every key is optional.                            *)
(***************************************************************************)
Dict(status, output, error, job, data) ==
    [status |-> status, output |-> output, error |-> error,
     job_id |-> job, data |-> data]

\* {"error": msg}
ErrorDict(msg) == Dict(None, None, Some(msg), None, None)

\* dict.get(key, default) on an optional key
GetOr(opt, default) == IF opt = None THEN default ELSE opt[1]

(***************************************************************************)
(* What the job queue can answer.  kind "ok" is a 2xx answer whose body is *)
(* the JSON object body; "request_error" a request that failed or a        *)
(* non-2xx answer (raise_for_status); "not_json" a 2xx answer whose body   *)
(* is no JSON, for which response.json() raises JSONDecodeError, a         *)
(* RequestException since requests 2.27 (an older requests raises a plain  *)
(* ValueError there, which escapes like the AttributeError below);         *)
(* "not_object" a 2xx answer whose JSON is no object (a list), on which    *)
(* .get raises AttributeError.                                             *)
(***************************************************************************)
JobIds == { "job-1", "job-2" }
PipelineJobIds == { "job-1" }

Answer(kind, body) == [kind |-> kind, body |-> body]

NoBody == [id |-> None, status |-> None, output |-> None, error |-> None]

FailureAnswers ==
    { Answer("request_error", NoBody), Answer("not_json", NoBody),
      Answer("not_object", NoBody) }

SubmitAnswers ==
    { Answer("ok", [NoBody EXCEPT !.id = Some(j)]) : j \in PipelineJobIds }
    \cup { Answer("ok", NoBody),
           Answer("ok", [NoBody EXCEPT !.id = Some("")]) }
    \cup FailureAnswers

\* The outputs a COMPLETED answer of the pipeline carries: none, no image
\* key, a valid payload behind a data-URI prefix, and text that is no base64.
PipelineOutputs ==
    { None,
      Some([image |-> None]),
      Some([image |-> Some(<< "x", ":", "," >> \o B64Encode(<< 7, 9 >>))]),
      Some([image |-> Some(<< "Q" >>)]) }

StatusAnswers ==
    { Answer("ok", [NoBody EXCEPT !.status = Some("COMPLETED"), !.output = o]) :
        o \in PipelineOutputs }
    \cup { Answer("ok", [NoBody EXCEPT !.status = Some("FAILED"), !.error = e]) :
             e \in { None, Some("boom") } }
    \cup { Answer("ok", [NoBody EXCEPT !.status = Some(s)]) :
             s \in { "IN_QUEUE", "IN_PROGRESS", "CANCELLED" } }
    \cup { Answer("ok", NoBody) }
    \cup FailureAnswers

\* The outcome of the try block around a request: "value" (the JSON object
\* is in hand), "caught" (except requests.exceptions.RequestException) or the
\* exception that escapes.
RequestOutcome(ans) ==
    CASE ans.kind = "ok" -> "value"
      [] ans.kind \in { "request_error", "not_json" } -> "caught"
      [] OTHER -> "AttributeError"

\* submit_job: the job id, None, or the exception that escapes
SubmitJob(ans) ==
    LET oc == RequestOutcome(ans) IN
    IF oc = "value"
    THEN [ret |-> IF ans.body.id # None /\ ans.body.id[1] # ""
                  THEN ans.body.id ELSE None,
          exc |-> ""]
    ELSE IF oc = "caught" THEN [ret |-> None, exc |-> ""]
    ELSE [ret |-> None, exc |-> oc]

\* Mutant: a request error ends the wait.
StatusBranchErrorFatal(ans) ==
    LET oc == RequestOutcome(ans) IN
    IF oc = "value" THEN
        CASE ans.body.status = Some("COMPLETED") -> "completed"
          [] ans.body.status = Some("FAILED") -> "failed"
          [] ans.body.status \in { Some("IN_QUEUE"), Some("IN_PROGRESS") } -> "sleep"
          [] OTHER -> "unknown"
    ELSE IF oc = "caught" THEN "RequestException"
    ELSE oc

\* Mutant: a status that is not recognized is polled again.
StatusBranchUnknownRetry(ans) ==
    LET oc == RequestOutcome(ans) IN
    IF oc = "value" THEN
        CASE ans.body.status = Some("COMPLETED") -> "completed"
          [] ans.body.status = Some("FAILED") -> "failed"
          [] OTHER -> "sleep"
    ELSE IF oc = "caught" THEN "sleep"
    ELSE oc

\* wait_for_completion: the branch one status answer takes
StatusBranch(ans) ==
    LET oc == RequestOutcome(ans) IN
    IF oc = "value" THEN
        CASE ans.body.status = Some("COMPLETED") -> "completed"
          [] ans.body.status = Some("FAILED") -> "failed"
          [] ans.body.status \in { Some("IN_QUEUE"), Some("IN_PROGRESS") } -> "sleep"
          [] OTHER -> "unknown"
    ELSE IF oc = "caught" THEN "sleep"
    ELSE oc

\* Mutant: the loop runs once more when the wait is used up exactly.
LoopCondInclusive(waited, maxwait) == waited <= maxwait

\* while time.time() - start_time < max_wait_time
LoopCond(waited, maxwait) == waited < maxwait

CompletedResult(body, job) ==
    Dict(Some("COMPLETED"), body.output, None, job, None)
FailedResult(body, job) ==
    Dict(Some("FAILED"), None, Some(GetOr(body.error, "Unknown error")), job, None)
UnknownResult(body, job) ==
    Dict(Some("UNKNOWN"), None, None, job, Some(body))
TimeoutResult(job) ==
    Dict(Some("TIMEOUT"), None, None, job, None)

\* How an answer reads: its status, or that the request failed
AnswerLabel(ans) ==
    CASE RequestOutcome(ans) = "value" -> GetOr(ans.body.status, "NO_STATUS")
      [] RequestOutcome(ans) = "caught" -> "REQUEST_ERROR"
      [] OTHER -> "MALFORMED"

(***************************************************************************)
(* save_image_result: the return value and the bytes written, if any.      *)
(* A missing 'output' key (-> {}) and an 'output' of None (-> caught        *)
(* AttributeError) both return False before anything is written.  write_ok *)
(* is the answer of the file system to makedirs / open / write (an OSError *)
(* otherwise, caught like every Exception).                                *)
(***************************************************************************)
SaveImageResult(res, write_ok) ==
    LET no == [ret |-> FALSE, wrote |-> None, io_error |-> FALSE] IN
    IF res.status # Some("COMPLETED") THEN no
    ELSE IF res.output = None THEN no
    ELSE LET image == res.output[1].image IN
         IF image = None \/ image[1] = << >> THEN no
         ELSE LET d == B64Decode(StripDataUri(image[1])) IN
              IF ~d.ok THEN no
              ELSE IF ~write_ok THEN [no EXCEPT !.io_error = TRUE]
              ELSE [ret |-> TRUE, wrote |-> Some(d.data), io_error |-> FALSE]

(***************************************************************************)
(* State.                                                                  *)
(***************************************************************************)
VARIABLES
    op,             \* the public method called
    pc,             \* where the call is
    raised,         \* the exception that escaped the call, "" when none
    exists1,        \* os.path.exists(image_path)
    exists2,        \* os.path.exists(image_path_2)
    steps,          \* the caller's steps
    use_lightning,  \* the caller's use_lightning
    seed,           \* the caller's seed
    isdir,          \* os.path.isdir(image_folder_path)
    listing,        \* os.listdir(image_folder_path)
    image_files,    \* batch: the filtered listing
    i,              \* batch: enumerate index of the file in hand
    results,        \* batch: the summary
    image_path,     \* edit_*: the file in hand
    edit_seed,      \* edit_*: the seed argument
    s3_path,        \* the storage references upload_to_s3 returned
    calls,          \* uploads and submissions since the edit (or the call) began
    submitted,      \* the input_data of every job submitted
    job_id,         \* wait_for_completion: the job id
    check_interval, \* wait_for_completion: check_interval
    max_wait_time,  \* wait_for_completion: max_wait_time
    elapsed,        \* wait_for_completion: time.time() - start_time
    polls,          \* wait_for_completion: status requests issued
    result,         \* the dictionary edit_* / wait_for_completion returned
    saved,          \* the value save_image_result returned last
    out_files,      \* output files on disk: path and bytes
    save_calls,     \* calls of save_image_result
    write_failed,   \* whether the last save_image_result failed to write
    observed        \* direct wait_for_completion call: the answers received

vars ==
    << op, pc, raised, exists1, exists2, steps, use_lightning, seed, isdir,
       listing, image_files, i, results, image_path, edit_seed, s3_path,
       calls, submitted, job_id, check_interval, max_wait_time, elapsed,
       polls, result, saved, out_files, save_calls, write_failed, observed >>

inputVars == << op, exists2, steps, use_lightning, seed, isdir, listing >>
batchVars == << image_files, i, results >>
waitVars == << job_id, check_interval, max_wait_time, elapsed, polls, observed >>
saveVars == << saved, out_files, save_calls, write_failed >>

Ops == { "upload", "wait", "save", "single", "dual", "batch" }

StepChoices == { 40, 7 }
ByteChoices == { 0, 77, 255 }
PrefixChars == { "x", ":", "," }

SeqsUpTo(S, n) == UNION { [1..k -> S] : k \in 0..n }

\* os.listdir: distinct names, in any order
Listings ==
    { l \in SeqsUpTo(FileNames, MaxFiles) :
        \A j, k \in 1..Len(l) : j # k => l[j] # l[k] }

\* Text placed before the payload: empty, or ending in a comma
Prefixes ==
    { p \in SeqsUpTo(PrefixChars, MaxPrefix) : p = << >> \/ p[Len(p)] = "," }

ImageOf(prefix, bytes) == prefix \o B64Encode(bytes)

\* The results handed to a direct save_image_result call
SaveInputs ==
    { Dict(Some("COMPLETED"), Some([image |-> Some(ImageOf(p, b))]),
           None, Some("job-1"), None) :
        p \in Prefixes, b \in SeqsUpTo(ByteChoices, MaxBytes) }
    \cup { Dict(Some("COMPLETED"), o, None, Some("job-1"), None) :
             o \in PipelineOutputs \cup { Some([image |-> Some(<< >>)]) } }
    \cup { FailedResult(NoBody, Some("job-1")), TimeoutResult(Some("job-1")),
           ErrorDict("Job submission failed") }

TheFile == [stem |-> "a", suffix |-> ".jpg"]
TheCanvas == [stem |-> "c", suffix |-> ".png"]
OutputFolder == "output/qwen_batch"

NoCalls == [s3 |-> 0, post |-> 0]
EmptySummary(n) ==
    [total_files |-> n, successful |-> 0, failed |-> 0, results |-> << >>]

Init ==
    /\ op \in Ops
    /\ pc = CASE op = "upload" -> "upload"
              [] op = "wait" -> "wait_loop"
              [] op = "save" -> "save"
              [] op = "single" -> "edit_check"
              [] op = "dual" -> "dual_check"
              [] OTHER -> "batch_start"
    /\ raised = ""
    /\ exists1 \in IF op \in { "upload", "single", "dual" } THEN BOOLEAN ELSE { TRUE }
    /\ exists2 \in IF op = "dual" THEN BOOLEAN ELSE { TRUE }
    /\ steps \in IF op \in { "single", "dual", "batch" }
                 THEN StepChoices ELSE { 40 }
    /\ use_lightning \in IF op \in { "single", "dual", "batch" }
                         THEN BOOLEAN ELSE { FALSE }
    /\ seed = DefaultSeed
    /\ isdir \in IF op = "batch" THEN BOOLEAN ELSE { TRUE }
    /\ listing \in IF op = "batch" /\ isdir THEN Listings ELSE { << >> }
    /\ image_files = << >>
    /\ i = 0
    /\ results = EmptySummary(0)
    /\ image_path = TheFile
    /\ edit_seed = seed
    /\ s3_path = None
    /\ calls = NoCalls
    /\ submitted = << >>
    /\ job_id \in IF op = "wait" THEN { Some(j) : j \in JobIds } ELSE { None }
    /\ check_interval \in IF op = "wait" THEN 1..MaxInterval
                          ELSE { DefaultCheckInterval }
    /\ max_wait_time \in IF op = "wait" THEN 0..MaxWait
                         ELSE { DefaultMaxWaitTime }
    /\ elapsed = 0
    /\ polls = 0
    /\ result \in IF op = "save" THEN { Some(r) : r \in SaveInputs } ELSE { None }
    /\ saved = None
    /\ out_files = { }
    /\ save_calls = 0
    /\ write_failed = FALSE
    /\ observed = << >>


(***************************************************************************)
(* upload_to_s3: the value returned and the number of object-store calls.  *)
(* store_ok is the answer of s3_client.upload_file (it raises otherwise).  *)
(***************************************************************************)
S3Path(role, f) ==
    [mount |-> "/runpod-volume/", key |-> "input/qwen/", role |-> role, name |-> f]

\* Mutant: the upload is attempted without looking for the file.
UploadToS3Unchecked(f, role, ex, store_ok) ==
    IF store_ok THEN [ret |-> Some(S3Path(role, f)), attempts |-> 1]
    ELSE [ret |-> None, attempts |-> 1]

UploadToS3(f, role, ex, store_ok) ==
    IF ~ex THEN [ret |-> None, attempts |-> 0]
    ELSE IF store_ok THEN [ret |-> Some(S3Path(role, f)), attempts |-> 1]
    ELSE [ret |-> None, attempts |-> 1]

\* input_data of edit_single_image / edit_dual_image
InputData(paths, sd, st, lightning) ==
    [image_path |-> paths[1],
     image_path_2 |-> IF Len(paths) > 1 THEN Some(paths[2]) ELSE None,
     seed |-> sd,
     steps |-> EffectiveSteps(st, lightning)]

\* An entry of the batch summary
Entry(f, status, output_file, error, job) ==
    [filename |-> f, status |-> status, output_file |-> output_file,
     error |-> error, job_id |-> job]

SuccessEntry(f, path, res) == Entry(f, "success", Some(path), None, res.job_id)
SaveFailedEntry(f, res) ==
    Entry(f, "failed", None, Some("Result save failed"), res.job_id)
\* Mutant: the entry of a failed job drops the job's message.
JobFailedEntryNoMessage(f, res) ==
    Entry(f, "failed", None, Some("Unknown error"), res.job_id)

JobFailedEntry(f, res) ==
    Entry(f, "failed", None, Some(GetOr(res.error, "Unknown error")), res.job_id)

\* Mutant: an entry that is no success is appended but not counted.
RecordFailedUncounted(summary, entry) ==
    [summary EXCEPT
        !.successful = IF entry.status = "success" THEN @ + 1 ELSE @,
        !.results = Append(@, entry)]

\* results["successful"] += 1 or results["failed"] += 1, and
\* results["results"].append(entry)
Record(summary, entry) ==
    [summary EXCEPT
        !.successful = IF entry.status = "success" THEN @ + 1 ELSE @,
        !.failed = IF entry.status = "success" THEN @ ELSE @ + 1,
        !.results = Append(@, entry)]

(***************************************************************************)
(* Returning and raising.  edit_single_image and edit_dual_image return    *)
(* what wait_for_completion returns; no caller catches an exception.       *)
(***************************************************************************)
Return(r) ==
    /\ result' = Some(r)
    /\ pc' = IF op = "batch" THEN "batch_handle" ELSE "done"
    /\ raised' = raised

Raise(e) ==
    /\ raised' = e
    /\ pc' = "done"
    /\ result' = result

(***************************************************************************)
(* upload_to_s3 called directly.                                           *)
(***************************************************************************)
Upload ==
    /\ pc = "upload"
    /\ \E store_ok \in BOOLEAN :
         LET u == UploadToS3(image_path, "", exists1, store_ok) IN
         /\ s3_path' = u.ret
         /\ calls' = [calls EXCEPT !.s3 = @ + u.attempts]
    /\ pc' = "done"
    /\ UNCHANGED << inputVars, batchVars, waitVars, saveVars, raised, exists1,
                    image_path, edit_seed, submitted, result >>

(***************************************************************************)
(* edit_single_image.                                                      *)
(***************************************************************************)
EditCheck ==
    /\ pc = "edit_check"
    /\ IF ~exists1
       THEN Return(ErrorDict("Image file does not exist"))
       ELSE pc' = "edit_upload" /\ UNCHANGED << result, raised >>
    /\ UNCHANGED << inputVars, batchVars, waitVars, saveVars, exists1,
                    image_path, edit_seed, s3_path, calls, submitted >>

EditUpload ==
    /\ pc = "edit_upload"
    /\ \E store_ok \in BOOLEAN :
         LET u == UploadToS3(image_path, "", exists1, store_ok) IN
         /\ calls' = [calls EXCEPT !.s3 = @ + u.attempts]
         /\ IF u.ret = None
            THEN Return(ErrorDict("Image S3 upload failed")) /\ s3_path' = s3_path
            ELSE /\ s3_path' = s3_path \o u.ret
                 /\ pc' = "edit_submit"
                 /\ UNCHANGED << result, raised >>
    /\ UNCHANGED << inputVars, batchVars, waitVars, saveVars, exists1,
                    image_path, edit_seed, submitted >>

\* The rest of edit_single_image and of edit_dual_image: input_data,
\* submit_job, and the call of wait_for_completion with its defaults.
EditSubmit ==
    /\ pc = "edit_submit"
    /\ submitted' =
         Append(submitted, InputData(s3_path, edit_seed, steps, use_lightning))
    /\ calls' = [calls EXCEPT !.post = @ + 1]
    /\ \E ans \in SubmitAnswers :
         LET r == SubmitJob(ans) IN
         IF r.exc # "" THEN Raise(r.exc) /\ UNCHANGED waitVars
         ELSE IF r.ret = None
         THEN Return(ErrorDict("Job submission failed")) /\ UNCHANGED waitVars
         ELSE /\ job_id' = r.ret
              /\ check_interval' = DefaultCheckInterval
              /\ max_wait_time' = DefaultMaxWaitTime
              /\ elapsed' = 0
              /\ polls' = 0
              /\ pc' = "wait_loop"
              /\ UNCHANGED << result, raised, observed >>
    /\ UNCHANGED << inputVars, batchVars, saveVars, exists1, image_path,
                    edit_seed, s3_path >>

(***************************************************************************)
(* edit_dual_image.                                                        *)
(***************************************************************************)
DualCheck ==
    /\ pc = "dual_check"
    /\ IF ~exists1
       THEN Return(ErrorDict("First image file does not exist"))
       ELSE IF ~exists2
       THEN Return(ErrorDict("Second image file does not exist"))
       ELSE pc' = "dual_upload1" /\ UNCHANGED << result, raised >>
    /\ UNCHANGED << inputVars, batchVars, waitVars, saveVars, exists1,
                    image_path, edit_seed, s3_path, calls, submitted >>

DualUpload1 ==
    /\ pc = "dual_upload1"
    /\ \E store_ok \in BOOLEAN :
         LET u == UploadToS3(image_path, "donor_", exists1, store_ok) IN
         /\ calls' = [calls EXCEPT !.s3 = @ + u.attempts]
         /\ IF u.ret = None
            THEN Return(ErrorDict("First image S3 upload failed"))
                 /\ s3_path' = s3_path
            ELSE /\ s3_path' = s3_path \o u.ret
                 /\ pc' = "dual_upload2"
                 /\ UNCHANGED << result, raised >>
    /\ UNCHANGED << inputVars, batchVars, waitVars, saveVars, exists1,
                    image_path, edit_seed, submitted >>

DualUpload2 ==
    /\ pc = "dual_upload2"
    /\ \E store_ok \in BOOLEAN :
         LET u == UploadToS3(TheCanvas, "canvas_", exists2, store_ok) IN
         /\ calls' = [calls EXCEPT !.s3 = @ + u.attempts]
         /\ IF u.ret = None
            THEN Return(ErrorDict("Second image S3 upload failed"))
                 /\ s3_path' = s3_path
            ELSE /\ s3_path' = s3_path \o u.ret
                 /\ pc' = "edit_submit"
                 /\ UNCHANGED << result, raised >>
    /\ UNCHANGED << inputVars, batchVars, waitVars, saveVars, exists1,
                    image_path, edit_seed, submitted >>

(***************************************************************************)
(* wait_for_completion.                                                    *)
(***************************************************************************)
\* The frame of wait_for_completion (elapsed, polls) is gone once control is
\* back in batch_edit_images; a direct call keeps it to read.
LeaveWait(requested) ==
    /\ elapsed' = IF op = "batch" THEN 0 ELSE elapsed
    /\ polls' = IF op = "batch" THEN 0 ELSE polls + requested

WaitReturn(r, requested) == Return(r) /\ LeaveWait(requested)

\* One evaluation of the loop condition and, when it holds, one iteration:
\* the status request, and the branch its answer takes.
WaitIterate ==
    /\ pc = "wait_loop"
    /\ IF ~LoopCond(elapsed, max_wait_time)
       THEN WaitReturn(TimeoutResult(job_id), 0) /\ observed' = observed
       ELSE \E ans \in StatusAnswers :
              LET branch == StatusBranch(ans) IN
              /\ observed' = IF op = "wait"
                             THEN Append(observed, ans)
                             ELSE observed
              /\ CASE branch = "completed" ->
                        WaitReturn(CompletedResult(ans.body, job_id), 1)
                   [] branch = "failed" ->
                        WaitReturn(FailedResult(ans.body, job_id), 1)
                   [] branch = "unknown" ->
                        WaitReturn(UnknownResult(ans.body, job_id), 1)
                   [] branch = "sleep" ->
                        /\ elapsed' = elapsed + check_interval
                        /\ polls' = polls + 1
                        /\ UNCHANGED << pc, result, raised >>
                   [] OTHER ->
                        Raise(branch) /\ LeaveWait(1)
    /\ UNCHANGED << inputVars, batchVars, saveVars, exists1, image_path,
                    edit_seed, s3_path, calls, submitted, job_id,
                    check_interval, max_wait_time >>

(***************************************************************************)
(* save_image_result, called directly or by batch_edit_images.             *)
(***************************************************************************)
OutputPath ==
    OutputFilename(OutputFolder,
                   IF op = "batch" THEN image_files[i + 1] ELSE TheFile)

Save ==
    /\ pc = "save"
    /\ save_calls' = save_calls + 1
    /\ \E write_ok \in BOOLEAN :
         LET r == SaveImageResult(result[1], write_ok) IN
         /\ saved' = Some(r.ret)
         /\ write_failed' = r.io_error
         /\ out_files' =
              IF r.wrote = None THEN out_files
              ELSE { f \in out_files : f.path # OutputPath }
                   \cup { [path |-> OutputPath, data |-> r.wrote[1]] }
         /\ IF op = "batch"
            THEN /\ results' =
                      Record(results,
                             IF r.ret
                             THEN SuccessEntry(image_files[i + 1], OutputPath, result[1])
                             ELSE SaveFailedEntry(image_files[i + 1], result[1]))
                 /\ i' = i + 1
                 /\ pc' = "batch_iter"
            ELSE /\ pc' = "done"
                 /\ UNCHANGED << results, i >>
    /\ UNCHANGED << inputVars, waitVars, raised, exists1, image_files,
                    image_path, edit_seed, s3_path, calls, submitted, result >>

(***************************************************************************)
(* batch_edit_images.                                                      *)
(***************************************************************************)
BatchStart ==
    /\ pc = "batch_start"
    /\ IF ~isdir
       THEN /\ result' = Some(ErrorDict("Image folder does not exist"))
            /\ pc' = "done"
            /\ UNCHANGED << image_files, results >>
       ELSE IF FilterImages(listing) = << >>
       THEN /\ result' = Some(ErrorDict("No image files to process"))
            /\ pc' = "done"
            /\ UNCHANGED << image_files, results >>
       ELSE /\ image_files' = FilterImages(listing)
            /\ results' = EmptySummary(Len(FilterImages(listing)))
            /\ pc' = "batch_iter"
            /\ result' = result
    /\ UNCHANGED << inputVars, waitVars, saveVars, raised, exists1, i,
                    image_path, edit_seed, s3_path, calls, submitted >>

\* for i, image_filename in enumerate(image_files): edit_single_image(...)
BatchIter ==
    /\ pc = "batch_iter"
    /\ IF i < Len(image_files)
       THEN /\ image_path' = image_files[i + 1]
            /\ edit_seed' = FileSeed(seed, i)
            /\ exists1' \in BOOLEAN
            /\ calls' = NoCalls
            /\ s3_path' = None
            /\ result' = None
            /\ saved' = None
            /\ write_failed' = FALSE
            /\ pc' = "edit_check"
       ELSE /\ pc' = "done"
            /\ UNCHANGED << image_path, edit_seed, exists1, calls, s3_path,
                            result, saved, write_failed >>
    /\ UNCHANGED << inputVars, batchVars, waitVars, raised, submitted,
                    out_files, save_calls >>

\* if result.get('status') == 'COMPLETED': ... else: ...
BatchHandle ==
    /\ pc = "batch_handle"
    /\ IF result[1].status = Some("COMPLETED")
       THEN pc' = "save" /\ UNCHANGED << results, i >>
       ELSE /\ results' = Record(results, JobFailedEntry(image_files[i + 1], result[1]))
            /\ i' = i + 1
            /\ pc' = "batch_iter"
    /\ UNCHANGED << inputVars, waitVars, saveVars, raised, exists1, image_files,
                    image_path, edit_seed, s3_path, calls, submitted, result >>

Next ==
    \/ Upload
    \/ EditCheck
    \/ EditUpload
    \/ EditSubmit
    \/ DualCheck
    \/ DualUpload1
    \/ DualUpload2
    \/ WaitIterate
    \/ Save
    \/ BatchStart
    \/ BatchIter
    \/ BatchHandle

Spec == Init /\ [][Next]_vars


(***************************************************************************)
(* The claims.                                                             *)
(***************************************************************************)
Done == pc = "done"
Last(q) == q[Len(q)]
Labels(q) == { AnswerLabel(q[k]) : k \in 1..Len(q) }
LabelsBeforeLast(q) == { AnswerLabel(q[k]) : k \in 1..(Len(q) - 1) }
InFlight == { "IN_QUEUE", "IN_PROGRESS" }
StatusOf(r) == r[1].status

\* C1: wait_for_completion stops on a timeout.  A status request is issued
\* only while less than max_wait_time has elapsed, so at most
\* ceil(max_wait_time / check_interval) requests are issued, whatever the
\* answers; elapsed time in a direct call is check_interval per request that
\* slept; and a call that has seen nothing but IN_QUEUE / IN_PROGRESS answers
\* (of any number, none included) ends, once the wait is used up, with
\* {status: TIMEOUT, job_id} for the job it was given.
C1_TimeoutStopsPolling ==
    /\ polls > 0 => (polls - 1) * check_interval < max_wait_time
    /\ (op = "wait" /\ Labels(observed) \subseteq InFlight) =>
          /\ Len(observed) = polls
          /\ elapsed = polls * check_interval
          /\ raised = ""
          /\ Done => /\ elapsed >= max_wait_time
                      /\ result = Some(Dict(Some("TIMEOUT"), None, None, job_id, None))

C1_Witness ==
    /\ op = "wait" /\ Done
    /\ Len(observed) >= 2
    /\ Labels(observed) = InFlight
    /\ StatusOf(result) = Some("TIMEOUT")

\* C2 as stated: whenever a direct wait_for_completion call that has met N >= 1
\* request errors, and after them at most one COMPLETED answer, is over, it
\* has returned COMPLETED (not an error, not a timeout).
C2_Original ==
    (/\ op = "wait" /\ Done
     /\ observed # << >>
     /\ LabelsBeforeLast(observed) \subseteq { "REQUEST_ERROR" }
     /\ AnswerLabel(Last(observed)) \in { "REQUEST_ERROR", "COMPLETED" })
    => (raised = "" /\ StatusOf(result) = Some("COMPLETED"))

\* C2 as amended: when the first N status requests fail with a request error
\* and N * check_interval < max_wait_time, the call has not returned and
\* issues status request N + 1; when that one reports COMPLETED the call
\* returns status COMPLETED with the reported output and the job id.
C2_ErrorsThenCompleted ==
    op = "wait" =>
      /\ (/\ Labels(observed) \subseteq { "REQUEST_ERROR" }
          /\ Len(observed) * check_interval < max_wait_time)
         => (pc = "wait_loop" /\ raised = "" /\ LoopCond(elapsed, max_wait_time))
      /\ (/\ observed # << >>
          /\ LabelsBeforeLast(observed) \subseteq { "REQUEST_ERROR" }
          /\ AnswerLabel(Last(observed)) = "COMPLETED")
         => /\ Done /\ raised = ""
            /\ result = Some(Dict(Some("COMPLETED"), Last(observed).body.output,
                                  None, job_id, None))

C2_Witness ==
    /\ op = "wait" /\ Done
    /\ Len(observed) >= 3
    /\ LabelsBeforeLast(observed) = { "REQUEST_ERROR" }
    /\ AnswerLabel(Last(observed)) = "COMPLETED"
    /\ StatusOf(result) = Some("COMPLETED")

\* C3: a FAILED answer ends the wait with {status: FAILED, error, job_id},
\* the error being the message of the answer when it has one; and in
\* batch_edit_images the file of a FAILED job gets an entry with status
\* "failed", that error and the job id, and save_image_result is not called
\* for it (saved is None, and save_image_result has been called only for
\* the files whose entry is a success or a failed save).
C3_FailedJobIsReported ==
    /\ (op = "wait" /\ observed # << >> /\ AnswerLabel(Last(observed)) = "FAILED")
       => /\ Done /\ raised = ""
          /\ StatusOf(result) = Some("FAILED")
          /\ result[1].job_id = job_id
          /\ result[1].error # None
          /\ Last(observed).body.error # None
                => result[1].error = Last(observed).body.error
    /\ (op \in { "single", "dual" } /\ Done /\ result # None
          /\ StatusOf(result) = Some("FAILED"))
       => (save_calls = 0 /\ out_files = { })
    /\ (op = "batch" /\ pc = "batch_iter" /\ result # None
          /\ StatusOf(result) = Some("FAILED"))
       => /\ saved = None
          /\ Len(results.results) = i
          /\ Last(results.results) =
               [filename |-> image_files[i], status |-> "failed",
                output_file |-> None, error |-> result[1].error,
                job_id |-> result[1].job_id]
    /\ op = "batch" =>
          save_calls =
            Cardinality({ k \in 1..Len(results.results) :
                            \/ results.results[k].status = "success"
                            \/ results.results[k].error = Some("Result save failed") })

C3_Witness ==
    /\ op = "batch" /\ pc = "batch_iter"
    /\ result # None /\ StatusOf(result) = Some("FAILED")
    /\ result[1].error = Some("boom")
    /\ Last(results.results).error = Some("boom")
    /\ save_calls = 0


\* C4 as stated: when batch_edit_images is over for a directory with K >= 2
\* matching files (so that a file has files after it), the pipeline has been
\* run for each of them in enumeration order and the summary holds exactly
\* one entry for each, whatever the outcome of each file.
C4_Original ==
    (op = "batch" /\ Done /\ Len(image_files) >= 2)
    => /\ Len(results.results) = Len(image_files)
       /\ \A k \in 1..Len(image_files) :
             results.results[k].filename = image_files[k]

\* C5 as stated, for the errors met before any status request (missing
\* file, upload failure, bad HTTP status on submission, malformed submission
\* response, missing job id): edit_single_image and edit_dual_image let no
\* exception escape to their caller.
C5_Original ==
    (op \in { "single", "dual" } /\ Done /\ polls = 0) => raised = ""

\* C6: the files batch_edit_images processes are the K files of the listing
\* whose extension is accepted (whatever its case), in the order of the
\* listing; total_files is K; the files handled so far are the first ones of
\* that enumeration, one entry each; the file at index i is run, and its job
\* submitted, with seed base + i, whatever became of the files before it;
\* and when the summary is returned all K files have been processed.
Accepted(f) ==
    f.suffix \in { ".jpg", ".JPG", ".jpeg", ".png", ".PNG", ".bmp" }
Matching == { k \in 1..Len(listing) : Accepted(listing[k]) }
PosInListing(f) == CHOOSE k \in 1..Len(listing) : listing[k] = f
IndexOf(f) == CHOOSE k \in 1..Len(image_files) : image_files[k] = f

C6_BatchFilesAndSeeds ==
    (op = "batch" /\ pc # "batch_start") =>
      /\ Len(image_files) = Cardinality(Matching)
      /\ \A k \in 1..Len(image_files) :
            /\ \E m \in Matching : listing[m] = image_files[k]
            /\ \A j \in 1..(k - 1) :
                  PosInListing(image_files[j]) < PosInListing(image_files[k])
      /\ image_files # << >> => results.total_files = Cardinality(Matching)
      /\ Len(results.results) <= Len(image_files)
      /\ \A k \in 1..Len(results.results) :
            results.results[k].filename = image_files[k]
      /\ pc \in { "edit_check", "edit_upload", "edit_submit", "wait_loop",
                  "batch_handle", "save" }
            => /\ i = Len(results.results)
               /\ image_path = image_files[i + 1]
               /\ edit_seed = seed + i
      /\ \A n \in 1..Len(submitted) :
            /\ \E k \in 1..Len(image_files) :
                  image_files[k] = submitted[n].image_path.name
            /\ submitted[n].seed = seed + IndexOf(submitted[n].image_path.name) - 1
      /\ (Done /\ raised = "" /\ image_files # << >>)
            => Len(results.results) = Cardinality(Matching)

C6_Witness ==
    /\ op = "batch" /\ Done /\ raised = ""
    /\ Len(listing) = 3 /\ Cardinality(Matching) = 2
    /\ results.total_files = 2
    /\ results.results[1].status = "failed"
    /\ Len(submitted) = 2
    /\ submitted[2].seed = seed + 1

\* C7: an answer whose status is none of COMPLETED, FAILED, IN_QUEUE and
\* IN_PROGRESS (or that has no status) ends the wait: the call returns
\* {status: UNKNOWN, data: the answer, job_id}.  No status request follows
\* an answer that is COMPLETED, FAILED or not recognized: all the answers
\* before the last are IN_QUEUE, IN_PROGRESS or request errors.  And a wait
\* that returns, returns one of COMPLETED, FAILED, TIMEOUT and UNKNOWN.
Recognized == { "COMPLETED", "FAILED", "IN_QUEUE", "IN_PROGRESS" }

C7_UnknownIsTerminal ==
    /\ op = "wait" =>
         /\ LabelsBeforeLast(observed) \subseteq InFlight \cup { "REQUEST_ERROR" }
         /\ Len(observed) = polls
         /\ (/\ observed # << >>
             /\ AnswerLabel(Last(observed))
                  \notin Recognized \cup { "REQUEST_ERROR", "MALFORMED" })
            => /\ Done /\ raised = ""
               /\ result = Some(Dict(Some("UNKNOWN"), None, None, job_id,
                                     Some(Last(observed).body)))
         /\ (Done /\ raised = "")
            => /\ StatusOf(result) \in { Some("COMPLETED"), Some("FAILED"),
                                         Some("TIMEOUT"), Some("UNKNOWN") }
               /\ StatusOf(result) = Some("TIMEOUT")
                    <=> Labels(observed) \subseteq InFlight \cup { "REQUEST_ERROR" }
    /\ (op \in { "single", "dual" } /\ Done /\ raised = "" /\ polls > 0)
         => StatusOf(result) \in { Some("COMPLETED"), Some("FAILED"),
                                   Some("TIMEOUT"), Some("UNKNOWN") }

C7_Witness ==
    /\ op = "wait" /\ Done
    /\ Len(observed) >= 2
    /\ AnswerLabel(Last(observed)) \in { "CANCELLED", "NO_STATUS" }
    /\ StatusOf(result) = Some("UNKNOWN")

\* C8 as stated: when batch_edit_images returns, the entries with status
\* "success" name pairwise distinct output files, and the number of output
\* files on disk equals the summary's successful count.
Successes == { k \in 1..Len(results.results) : results.results[k].status = "success" }

C8_Original ==
    (op = "batch" /\ Done /\ raised = "") =>
      /\ \A j, k \in Successes :
            j # k => results.results[j].output_file # results.results[k].output_file
      /\ Cardinality({ f.path : f \in out_files }) = results.successful

\* C9: save_image_result on a COMPLETED result whose image is the base64
\* encoding of the bytes B behind the text p (p empty, or ending in a comma),
\* the output path being writable.
SaveDone == op = "save" /\ Done /\ ~write_failed

SaveCase(p, b) ==
    /\ SaveDone
    /\ result[1] = Dict(Some("COMPLETED"), Some([image |-> Some(ImageOf(p, b))]),
                        None, Some("job-1"), None)

Holds(b) ==
    /\ saved = Some(TRUE)
    /\ out_files = { [path |-> OutputFilename(OutputFolder, TheFile), data |-> b] }

ByteSeqs == SeqsUpTo(ByteChoices, MaxBytes)
OneComma(p) == \A k \in 1..(Len(p) - 1) : p[k] # ","

\* C9 as stated: for every such p and B, save_image_result returns True and
\* the file holds exactly B.
C9_Original ==
    SaveDone => \A p \in Prefixes, b \in ByteSeqs : SaveCase(p, b) => Holds(b)

\* C9 as amended: the same, for a payload without prefix when B is not
\* empty, and for a payload behind a prefix whose only comma is its last
\* character.
C9_SaveWritesDecodedBytes ==
    SaveDone =>
      \A p \in Prefixes, b \in ByteSeqs :
        (/\ SaveCase(p, b)
         /\ \/ p = << >> /\ b # << >>
            \/ p # << >> /\ OneComma(p))
        => Holds(b)

C9_Witness ==
    /\ SaveCase(<< ":", "," >>, << 77, 255 >>)
    /\ Holds(<< 77, 255 >>)

\* C10: for an input file that does not exist no network call is made (no
\* upload, no submission, no status request) and the call fails:
\* upload_to_s3 returns None, edit_single_image and edit_dual_image return an
\* error result (in a batch too, where the file gets a failed entry).
Missing == ~exists1 \/ (op = "dual" /\ ~exists2)

C10_MissingFileNoNetwork ==
    Missing =>
      /\ calls = NoCalls /\ polls = 0
      /\ op # "batch" => submitted = << >>
      /\ raised = ""
      /\ (op = "upload" /\ Done) => s3_path = None
      /\ (op \in { "single", "dual" } /\ Done)
            => (result # None /\ StatusOf(result) = None /\ result[1].error # None)
      /\ (op = "batch" /\ pc = "batch_handle")
            => (StatusOf(result) = None /\ result[1].error # None)

C10_Witness ==
    /\ op = "dual" /\ Done
    /\ exists1 /\ ~exists2
    /\ result = Some(ErrorDict("Second image file does not exist"))
    /\ calls = NoCalls

\* C11: fast mode sets the step count of every submitted job payload to 4,
\* whatever step count the caller gave, in edit_single_image, in
\* edit_dual_image and for every file of batch_edit_images; with fast mode
\* off the submitted step count is the caller's.  Every POST /run of a call
\* carries one payload, and a job that is waited for has been submitted.
C11_LightningStepsAreFour ==
    op \in { "single", "dual", "batch" } =>
        /\ \A k \in 1..Len(submitted) :
              submitted[k].steps = IF use_lightning THEN 4 ELSE steps
        /\ op \in { "single", "dual" } => Len(submitted) = calls.post
        /\ op = "dual" =>
              \A k \in 1..Len(submitted) : submitted[k].image_path_2 # None
        /\ pc = "wait_loop" => Len(submitted) >= 1

C11_Witness ==
    /\ op = "batch" /\ Done /\ raised = ""
    /\ use_lightning /\ steps = 40
    /\ Len(submitted) = 2
    /\ \A k \in 1..2 : submitted[k].steps = 4

Failures == { k \in 1..Len(results.results) : results.results[k].status = "failed" }
BatchReturned == op = "batch" /\ Done /\ raised = "" /\ image_files # << >>

\* C12: the batch summary stays consistent.  After each file of
\* batch_edit_images has been handled, successful + failed is the number of
\* entries recorded so far (one per file handled), successful is the number
\* of entries with status "success" and failed the number with status
\* "failed"; when the batch returns its summary, successful + failed =
\* total_files = the number of entries; and the entries are in enumeration
\* order.
C12_BatchSummaryInvariant ==
    op = "batch" =>
        /\ results.successful + results.failed = Len(results.results)
        /\ Len(results.results) = i
        /\ results.successful = Cardinality(Successes)
        /\ results.failed = Cardinality(Failures)
        /\ \A k \in 1..Len(results.results) :
              results.results[k].filename = image_files[k]
        /\ BatchReturned =>
              /\ results.total_files = Len(image_files)
              /\ results.successful + results.failed = results.total_files
              /\ Len(results.results) = results.total_files

C12_Witness ==
    /\ BatchReturned
    /\ results.total_files = 2
    /\ results.successful = 1
    /\ results.failed = 1
    /\ results.results[1].status = "failed"
    /\ results.results[2].status = "success"

====
